---- MODULE Spec2Model ----
(***************************************************************************)
(* A model of src/fetch.rs: the streamed-response decoder                  *)
(* (get_streamed_text), the insight extractor (extract_json_block,         *)
(* extract_insights), the knowledge graph (Knowledge) and the exploration  *)
(* controller (build_documentation, main).                                 *)
(*                                                                         *)
(* Bytes and characters are tokens [k |-> kind].  A token stands for a     *)
(* fixed piece of text:                                                    *)
(*   nl     0x0A, the line terminator of the stream                        *)
(*   sp     0x20, the white space that trim() strips                       *)
(*   open   {"response":"           the head of a ResponseChunk line       *)
(*   done   ","done":true}          its tail, completion flag set          *)
(*   more   ","done":false}         its tail, completion flag clear        *)
(*   x      an ASCII letter                                                *)
(*   lb rb comma      [ ] ,                                                *)
(*   obj    a JSON object with the fields of StructuredInsight (escaped    *)
(*          inside a stream line, unescaped in the decoded text)           *)
(*   qopen  {"concept":"B","definition":"   an object up to the opening    *)
(*          quote of its last string value                                 *)
(*   qclose "}   the closing quote of that value and the end of the object *)
(*   lead cont   0xC3 0xA9, the two bytes of the UTF-8 encoding of e-acute *)
(*   eacute fffd   the characters U+00E9 and U+FFFD                        *)
(* All tokens but lead and cont are ASCII text, which from_utf8_lossy      *)
(* maps byte for byte.                                                     *)
(***************************************************************************)
EXTENDS Naturals, Sequences, FiniteSets, TLC

VARIABLES
  pc,                \* position of the controller in main/build_documentation
  call,              \* "query": a request of build_documentation; "extract": of extract_insights
  in_loop,           \* TRUE once build_documentation is inside its loop (line 154)
  depth,             \* build_documentation's round counter
  concepts,          \* knowledge.concepts: concept name -> Concept
  previous_concepts, \* build_documentation's snapshot of knowledge.concepts
  body,              \* bytes of the current response body not yet delivered
  buffer,            \* get_streamed_text's line buffer
  full_text,         \* get_streamed_text's accumulated text
  received,          \* history: the bytes of the current response read so far
  decoded,           \* history: every character decoded from the current response
  ret,               \* history: how the last get_streamed_text returned
  requests,          \* history: number of requests sent
  outstanding,       \* history: requests sent whose response is still being read
  failed,            \* history: a request has failed in transport
  file_writes,       \* number of calls of write_documentation_to_file
  last_merge,        \* history: input and outcome of the last merge step
  merged_concepts,   \* history: concept fields of the records merged so far
  last_def,          \* history: per concept, the last definition field that was present
  last_nonempty_def, \* history: per concept, the last definition field present and non-empty
  insight,           \* the record of the stand-alone merge experiment
  hist               \* the graphs before and after each application in that experiment

vars == <<pc, call, in_loop, depth, concepts, previous_concepts, body, buffer,
          full_text, received, decoded, ret, requests, outstanding, failed, file_writes,
          last_merge,
          merged_concepts, last_def, last_nonempty_def, insight, hist>>

-----------------------------------------------------------------------------
(* Tokens *)

Tok(kind) == [k |-> kind]
NL == Tok("nl")
SP == Tok("sp")
OPEN == Tok("open")
DONE == Tok("done")
MORE == Tok("more")
X == Tok("x")
LB == Tok("lb")
RB == Tok("rb")
COMMA == Tok("comma")
QOPEN == Tok("qopen")
QCLOSE == Tok("qclose")
LEAD == Tok("lead")
CONT == Tok("cont")
EACUTE == Tok("eacute")
FFFD == Tok("fffd")

(* Option<String> *)
None == <<>>
Some(s) == <<s>>

(* JSON values of an object's field: absent, a string, or a number *)
JAbsent == [j |-> "absent"]
JStr(s) == [j |-> "str", s |-> s]
JNum == [j |-> "num"]

JObj(t, c, d, e, s) ==
  [k |-> "obj", topic |-> t, concept |-> c, definition |-> d, example |-> e, subtopic |-> s]

StructuredInsight(t, c, d, e, s) ==
  [topic |-> t, concept |-> c, definition |-> d, example |-> e, subtopic |-> s]

-----------------------------------------------------------------------------
(* Strings *)

RECURSIVE from_utf8_lossy(_)
from_utf8_lossy(bytes) ==
  IF bytes = <<>> THEN <<>>
  ELSE IF Head(bytes) = LEAD
    THEN IF Len(bytes) >= 2 /\ bytes[2] = CONT
           THEN <<EACUTE>> \o from_utf8_lossy(Tail(Tail(bytes)))
           ELSE <<FFFD>> \o from_utf8_lossy(Tail(bytes))
  ELSE IF Head(bytes) = CONT
    THEN <<FFFD>> \o from_utf8_lossy(Tail(bytes))
  ELSE <<Head(bytes)>> \o from_utf8_lossy(Tail(bytes))

RECURSIVE trim_start(_)
trim_start(s) ==
  IF s # <<>> /\ Head(s) = SP THEN trim_start(Tail(s)) ELSE s

RECURSIVE trim_end(_)
trim_end(s) ==
  IF s # <<>> /\ s[Len(s)] = SP THEN trim_end(SubSeq(s, 1, Len(s) - 1)) ELSE s

trim(s) == trim_end(trim_start(s))

\* str::find: the first position of c in s, 0 when there is none
find(s, c) ==
  IF \E i \in 1..Len(s) : s[i] = c
    THEN CHOOSE i \in 1..Len(s) : s[i] = c /\ \A j \in 1..(i - 1) : s[j] # c
    ELSE 0

\* str::rfind: the last position of c in s, 0 when there is none
rfind(s, c) ==
  IF \E i \in 1..Len(s) : s[i] = c
    THEN CHOOSE i \in 1..Len(s) : s[i] = c /\ \A j \in (i + 1)..Len(s) : s[j] # c
    ELSE 0

-----------------------------------------------------------------------------
(* The stream decoder *)

\* a character that can stand inside the JSON string of a stream line
IsTextChar(c) == c.k \notin {"nl", "open", "done", "more"}

\* serde_json::from_str::<ResponseChunk>(&line)
ParseResponseChunk(line) ==
  IF /\ Len(line) >= 2
     /\ line[1] = OPEN
     /\ line[Len(line)] \in {DONE, MORE}
     /\ \A i \in 2..(Len(line) - 1) : IsTextChar(line[i])
    THEN [ok |-> TRUE, response |-> SubSeq(line, 2, Len(line) - 1),
          done |-> line[Len(line)] = DONE]
    ELSE [ok |-> FALSE, response |-> <<>>, done |-> FALSE]

\* a decoder that notes the completion flag but finishes the buffer before it returns
RECURSIVE DrainLinesPastDone(_, _, _)
DrainLinesPastDone(buf, text, seen) ==
  LET pos == find(buf, NL) IN
  IF pos = 0 THEN [buffer |-> buf, full_text |-> text, returned |-> seen]
  ELSE
    LET line == trim(SubSeq(buf, 1, pos - 1))
        rest == SubSeq(buf, pos + 1, Len(buf))
        json_chunk == ParseResponseChunk(line)
    IN IF line # <<>> /\ json_chunk.ok
         THEN DrainLinesPastDone(rest, text \o json_chunk.response, seen \/ json_chunk.done)
         ELSE DrainLinesPastDone(rest, text, seen)

DrainLinesLate(buf, text) == DrainLinesPastDone(buf, text, FALSE)

\* a decoder that gives up at the first line that does not parse
RECURSIVE DrainLinesStrict(_, _)
DrainLinesStrict(buf, text) ==
  LET pos == find(buf, NL) IN
  IF pos = 0 THEN [buffer |-> buf, full_text |-> text, returned |-> FALSE]
  ELSE
    LET line == trim(SubSeq(buf, 1, pos - 1))
        rest == SubSeq(buf, pos + 1, Len(buf))
        json_chunk == ParseResponseChunk(line)
    IN IF line = <<>> THEN DrainLinesStrict(rest, text)
       ELSE IF json_chunk.ok
         THEN IF json_chunk.done
                THEN [buffer |-> rest, full_text |-> text \o json_chunk.response,
                      returned |-> TRUE]
                ELSE DrainLinesStrict(rest, text \o json_chunk.response)
       ELSE [buffer |-> rest, full_text |-> text, returned |-> TRUE]

\* the inner loop of get_streamed_text: consume the complete lines of buf
RECURSIVE DrainLines(_, _)
DrainLines(buf, text) ==
  LET pos == find(buf, NL) IN
  IF pos = 0 THEN [buffer |-> buf, full_text |-> text, returned |-> FALSE]
  ELSE
    LET line == trim(SubSeq(buf, 1, pos - 1))
        rest == SubSeq(buf, pos + 1, Len(buf))
        json_chunk == ParseResponseChunk(line)
    IN IF line = <<>> THEN DrainLines(rest, text)
       ELSE IF json_chunk.ok
         THEN IF json_chunk.done
                THEN [buffer |-> rest, full_text |-> text \o json_chunk.response,
                      returned |-> TRUE]
                ELSE DrainLines(rest, text \o json_chunk.response)
       ELSE DrainLines(rest, text)

-----------------------------------------------------------------------------
(* The knowledge graph *)

\* Concept::default()
DefaultConcept ==
  [definition |-> None, examples |-> {}, related_concepts |-> {}, subtopics |-> {}]

\* self.concepts.entry(name).or_default()
entry_or_default(g, name) ==
  IF name \in DOMAIN g THEN g ELSE g @@ (name :> DefaultConcept)

\* self.concepts.insert(concept, Concept::default()): an entry already there is reset
add_concept_insert(g, concept) ==
  [c \in DOMAIN g \cup {concept} |-> IF c = concept THEN DefaultConcept ELSE g[c]]

add_concept(g, concept) == entry_or_default(g, concept)

\* the edge is added in both directions
add_related_concept_both(g, concept, related) ==
  LET h == entry_or_default(entry_or_default(g, concept), related)
  IN [h EXCEPT ![concept].related_concepts = @ \cup {related},
               ![related].related_concepts = @ \cup {concept}]

add_related_concept(g, concept, related) ==
  [entry_or_default(g, concept) EXCEPT ![concept].related_concepts = @ \cup {related}]

\* a definition that is merged into the one already there instead of replacing it
add_definition_merging(g, concept, def) ==
  [entry_or_default(g, concept) EXCEPT
     ![concept].definition = IF @ = None THEN Some(def) ELSE Some("merged")]

\* an empty definition is skipped, as an empty subtopic is
add_definition_nonempty(g, concept, def) ==
  IF def = "" THEN entry_or_default(g, concept)
  ELSE [entry_or_default(g, concept) EXCEPT ![concept].definition = Some(def)]

add_definition(g, concept, def) ==
  [entry_or_default(g, concept) EXCEPT ![concept].definition = Some(def)]

add_example(g, concept, example) ==
  [entry_or_default(g, concept) EXCEPT ![concept].examples = @ \cup {example}]

add_subtopic(g, concept, subtopic) ==
  [entry_or_default(g, concept) EXCEPT ![concept].subtopics = @ \cup {subtopic}]

\* Knowledge::default() followed by add_concept("General")
SeededGraph == add_concept(<<>>, "General")

-----------------------------------------------------------------------------
(* The insight extractor *)

\* the span from the first '[' to the first ']'
extract_json_block_first_close(text) ==
  LET start == find(text, LB)
      end == find(text, RB)
  IN IF start = 0 \/ end = 0 THEN [tag |-> "None", v |-> <<>>]
     ELSE IF start > end + 1 THEN [tag |-> "Panic", v |-> <<>>]
     ELSE [tag |-> "Some", v |-> SubSeq(text, start, end)]

\* extract_json_block: the span from the first '[' to the last ']'.  Slicing
\* text[start..=end] panics when start > end + 1 and is empty when start = end + 1.
extract_json_block(text) ==
  LET start == find(text, LB)
      end == rfind(text, RB)
  IN IF start = 0 \/ end = 0 THEN [tag |-> "None", v |-> <<>>]
     ELSE IF start > end + 1 THEN [tag |-> "Panic", v |-> <<>>]
     ELSE [tag |-> "Some", v |-> SubSeq(text, start, end)]

\* the Option<String> of a field; a number is no Option<String>
IsOptionString(jv) == jv.j \in {"absent", "str"}
ToOption(jv) == IF jv.j = "str" THEN Some(jv.s) ELSE None

\* a field that is no string is taken as absent
ObjectParsesLenient(o) == o.k = "obj"

\* Deserialize for StructuredInsight
ObjectParses(o) ==
  /\ o.k = "obj"
  /\ \A jv \in {o.topic, o.concept, o.definition, o.example, o.subtopic} : IsOptionString(jv)

ToInsight(o) ==
  StructuredInsight(ToOption(o.topic), ToOption(o.concept), ToOption(o.definition),
                    ToOption(o.example), ToOption(o.subtopic))

NotSpace(c) == c # SP

\* a character that can stand unescaped inside a JSON string
IsStringChar(c) == c.k \in {"x", "lb", "rb", "comma", "sp", "eacute", "fffd"}

\* the character as text
CharOf(c) ==
  CASE c.k = "x" -> "x"
    [] c.k = "lb" -> "["
    [] c.k = "rb" -> "]"
    [] c.k = "comma" -> ","
    [] c.k = "sp" -> " "
    [] c.k = "eacute" -> "(U+00E9)"
    [] c.k = "fffd" -> "(U+FFFD)"

RECURSIVE StringOf(_)
StringOf(chars) ==
  IF chars = <<>> THEN "" ELSE CharOf(Head(chars)) \o StringOf(Tail(chars))

\* the JSON tokens of the text: an object written as qopen chars qclose is the
\* object whose definition is the string of chars.  A qopen whose string does
\* not end, or holds a quote or a control character, stays as it is and is no
\* JSON value, like a qclose without qopen.
RECURSIVE Lex(_)
Lex(s) ==
  IF s = <<>> THEN <<>>
  ELSE IF Head(s) = QOPEN
    THEN LET rest == Tail(s)
             q == find(rest, QCLOSE)
         IN IF q # 0 /\ \A i \in 1..(q - 1) : IsStringChar(rest[i])
              THEN <<JObj(JAbsent, JStr("B"), JStr(StringOf(SubSeq(rest, 1, q - 1))),
                          JAbsent, JAbsent)>>
                     \o Lex(SubSeq(rest, q + 1, Len(rest)))
              ELSE <<QOPEN>> \o Lex(rest)
  ELSE <<Head(s)>> \o Lex(Tail(s))

IsGoodObject(c) == c.k = "obj" /\ ObjectParses(c)

\* a parser that picks the objects out of the span, whatever stands between them
ParseInsightArrayLenient(json) ==
  LET objs == SelectSeq(json, IsGoodObject)
  IN [ok |-> TRUE, v |-> [i \in 1..Len(objs) |-> ToInsight(objs[i])]]

\* serde_json::from_str::<Vec<StructuredInsight>>(&json).ok(): white space between
\* the JSON tokens is skipped; the rest must be [ object , object ... ] and nothing
\* else
ParseInsightArray(json) ==
  LET t == SelectSeq(Lex(json), NotSpace)
      n == Len(t)
      wellFormed ==
        /\ n >= 2
        /\ t[1] = LB
        /\ t[n] = RB
        /\ \/ n = 2
           \/ /\ n % 2 = 1
              /\ \A i \in 2..(n - 1) :
                   IF i % 2 = 0 THEN ObjectParses(t[i]) ELSE t[i] = COMMA
  IN IF wellFormed
       THEN [ok |-> TRUE, v |-> [i \in 1..((n - 1) \div 2) |-> ToInsight(t[2 * i])]]
       ELSE [ok |-> FALSE, v |-> <<>>]

\* the loop body without the test for an empty subtopic
MergeInsightUnchecked(g, i) ==
  LET concept == i.concept[1]
      g1 == IF i.concept # None THEN add_concept(g, concept) ELSE g
      g2 == IF i.concept # None /\ i.topic # None
              THEN add_related_concept(g1, concept, i.topic[1]) ELSE g1
      g3 == IF i.concept # None /\ i.definition # None
              THEN add_definition(g2, concept, i.definition[1]) ELSE g2
      g4 == IF i.concept # None /\ i.example # None
              THEN add_example(g3, concept, i.example[1]) ELSE g3
  IN IF i.subtopic # None
       THEN add_subtopic(g4, "General", i.subtopic[1]) ELSE g4

\* the loop body with the definition and the example of a record without concept
\* filed under its topic
MergeInsightTopicFallback(g, i) ==
  LET name == IF i.concept # None THEN i.concept ELSE i.topic
      concept == name[1]
      g1 == IF name # None THEN add_concept(g, concept) ELSE g
      g2 == IF i.concept # None /\ i.topic # None
              THEN add_related_concept(g1, concept, i.topic[1]) ELSE g1
      g3 == IF name # None /\ i.definition # None
              THEN add_definition(g2, concept, i.definition[1]) ELSE g2
      g4 == IF name # None /\ i.example # None
              THEN add_example(g3, concept, i.example[1]) ELSE g3
  IN IF i.subtopic # None /\ i.subtopic[1] # ""
       THEN add_subtopic(g4, "General", i.subtopic[1]) ELSE g4

\* the body of the for loop of extract_insights, for one record
MergeInsight(g, i) ==
  LET concept == i.concept[1]
      g1 == IF i.concept # None THEN add_concept(g, concept) ELSE g
      g2 == IF i.concept # None /\ i.topic # None
              THEN add_related_concept(g1, concept, i.topic[1]) ELSE g1
      g3 == IF i.concept # None /\ i.definition # None
              THEN add_definition(g2, concept, i.definition[1]) ELSE g2
      g4 == IF i.concept # None /\ i.example # None
              THEN add_example(g3, concept, i.example[1]) ELSE g3
  IN IF i.subtopic # None /\ i.subtopic[1] # ""
       THEN add_subtopic(g4, "General", i.subtopic[1]) ELSE g4

\* for insight in insights { ... }
RECURSIVE MergeInsights(_, _)
MergeInsights(g, insights) ==
  IF insights = <<>> THEN g
  ELSE MergeInsights(MergeInsight(g, Head(insights)), Tail(insights))

\* the match of extract_insights on the decoded response: the records it merges,
\* none when no array is found or it does not parse
ExtractedInsights(raw_text) ==
  LET block == extract_json_block(raw_text)
      parsed == ParseInsightArray(block.v)
  IN IF block.tag = "Some" /\ parsed.ok THEN parsed.v ELSE <<>>

-----------------------------------------------------------------------------
(* What the endpoint may send *)

\* the names and strings the records of the model are built from
ConceptNames == {"General", "A", "B"}

\* sequences over S of length at most n
SeqsUpTo(S, n) == UNION {[1..m -> S] : m \in 0..n}

\* one stream line carrying the text fragment t
Line(t, fin) == <<OPEN>> \o t \o <<fin, NL>>

\* the JSON objects whose fields are absent or strings
Objects ==
  {JObj(t, c, d, e, s) :
     t \in {JAbsent, JStr("A"), JStr("B")},
     c \in {JAbsent, JStr("A"), JStr("B")},
     d \in {JAbsent, JStr(""), JStr("D1")},
     e \in {JAbsent, JStr("E1")},
     s \in {JAbsent, JStr(""), JStr("S1")}}

\* the records the objects parse to
Insights == {ToInsight(o) : o \in Objects}

GoodObject == JObj(JStr("B"), JStr("A"), JStr("D1"), JStr("E1"), JAbsent)
OtherObject == JObj(JAbsent, JStr("A"), JStr("D2"), JStr("E2"), JStr("S1"))
EmptyDefObject == JObj(JAbsent, JStr("A"), JStr(""), JAbsent, JAbsent)
SubtopicObject == JObj(JStr("B"), JAbsent, JStr("D1"), JAbsent, JStr("S2"))
\* an object with a field that is no string: "topic": 7
BadObject == JObj(JNum, JStr("B"), JStr("D1"), JStr("E1"), JStr("S1"))

\* the objects of the arrays of several records
BatchObjects == {GoodObject, OtherObject, EmptyDefObject, SubtopicObject, BadObject}

\* the text of a JSON array of the objects objs
RECURSIVE ArrayItems(_)
ArrayItems(objs) ==
  IF objs = <<>> THEN <<>>
  ELSE IF Len(objs) = 1 THEN <<objs[1]>>
  ELSE <<objs[1], COMMA>> \o ArrayItems(Tail(objs))

ArrayText(objs) == <<LB>> \o ArrayItems(objs) \o <<RB>>

\* the largest number of records of an array the endpoint sends
MaxBatch == 2

\* responses to a request of extract_insights
ExtractTexts ==
  {ArrayText(<<o>>) : o \in Objects}
    \cup {ArrayText(objs) : objs \in SeqsUpTo(BatchObjects, MaxBatch)}
    \cup {<<>>, <<X>>, <<LB, X>>, <<X, RB>>, <<RB, LB>>, <<RB, X, LB>>, <<LB, X, RB>>,
          <<X>> \o ArrayText(<<GoodObject>>) \o <<X>>,
          ArrayText(<<GoodObject>>) \o ArrayText(<<OtherObject>>)}

ExtractBodies ==
  {Line(t, DONE) : t \in ExtractTexts}
    \cup {Line(<<LB, GoodObject>>, MORE) \o Line(<<COMMA, OtherObject, RB>>, DONE),
          Line(ArrayText(<<OtherObject>>), MORE),
          Line(ArrayText(<<OtherObject>>), DONE) \o Line(ArrayText(<<GoodObject>>), DONE),
          <<OPEN>> \o ArrayText(<<OtherObject>>) \o <<DONE>>,
          <<X, NL>> \o Line(ArrayText(<<SubtopicObject>>), DONE)}

\* responses to a request of build_documentation
QueryBodies ==
  {<<>>, Line(<<X>>, DONE), Line(<<X>>, MORE) \o Line(<<LEAD, CONT>>, DONE),
   <<X, NL>>, Line(<<X>>, MORE)}

Bodies(c) == IF c = "query" THEN QueryBodies ELSE ExtractBodies

-----------------------------------------------------------------------------
(* History *)

NoMerge == [valid |-> FALSE, raw |-> <<>>, before |-> <<>>]

\* the concept fields of the records
ConceptsOf(insights) ==
  {insights[n].concept[1] : n \in {m \in 1..Len(insights) : insights[m].concept # None}}

\* the definition field of the last record of insights for concept c whose
\* definition is present (and, with nonEmpty, not the empty string), old when
\* there is none
LastDefinition(insights, c, old, nonEmpty) ==
  LET hits == {n \in 1..Len(insights) :
                 /\ insights[n].concept = Some(c)
                 /\ insights[n].definition # None
                 /\ (nonEmpty => insights[n].definition[1] # "")}
  IN IF hits = {} THEN old
     ELSE insights[CHOOSE n \in hits : \A m \in hits : m <= n].definition

-----------------------------------------------------------------------------
(* The controller *)

\* let mut depth = 1
InitialDepth == 1

NoInsight == StructuredInsight(None, None, None, None, None)

\* main up to the first request of build_documentation: the graph is created
\* and seeded with the root
Init ==
  /\ pc = "send"
  /\ call = "query"
  /\ in_loop = FALSE
  /\ depth = InitialDepth
  /\ concepts = SeededGraph
  /\ previous_concepts = <<>>
  /\ body = <<>>
  /\ buffer = <<>>
  /\ full_text = <<>>
  /\ received = <<>>
  /\ decoded = <<>>
  /\ ret = "none"
  /\ requests = 0
  /\ outstanding = 0
  /\ failed = FALSE
  /\ file_writes = 0
  /\ last_merge = NoMerge
  /\ merged_concepts = {}
  /\ last_def = [c \in ConceptNames |-> None]
  /\ last_nonempty_def = [c \in ConceptNames |-> None]
  /\ insight = NoInsight
  /\ hist = <<>>

graphVars == <<concepts, merged_concepts, last_def, last_nonempty_def, last_merge>>
streamVars == <<body, buffer, full_text, received, decoded, ret>>
loopVars == <<in_loop, depth, previous_concepts>>
testVars == <<insight, hist>>

\* the state in which get_streamed_text has returned and its locals are gone
StreamDropped ==
  /\ body' = <<>>
  /\ buffer' = <<>>
  /\ full_text' = <<>>
  /\ received' = <<>>
  /\ decoded' = <<>>
  /\ ret' = "none"

\* client.post(..).json(..).send().await succeeds: the response body b, one of
\* bodies, starts to arrive
SendOf(bodies) ==
  /\ pc = "send"
  /\ \E b \in bodies : body' = b
  /\ pc' = "stream"
  /\ buffer' = <<>>
  /\ full_text' = <<>>
  /\ received' = <<>>
  /\ decoded' = <<>>
  /\ ret' = "none"
  /\ requests' = requests + 1
  /\ outstanding' = outstanding + 1
  /\ UNCHANGED <<call, failed, file_writes>>
  /\ UNCHANGED <<graphVars, loopVars, testVars>>

Send == SendOf(Bodies(call))

\* the request is sent again after a transport error
OnTransportErrorRetry == "send"

\* build_documentation swallows the error and returns what it has
OnTransportErrorSalvage == "done"

\* the ? operator on a transport error: the error is returned to main, which returns it
OnTransportError == "error"

\* send().await? fails: build_documentation returns the error
SendFails ==
  /\ pc = "send"
  /\ pc' = OnTransportError
  /\ failed' = TRUE
  /\ requests' = requests + 1
  /\ UNCHANGED <<call, outstanding, file_writes>>
  /\ UNCHANGED <<graphVars, loopVars, streamVars, testVars>>

\* the caller goes on as soon as a first chunk is in, the response still being read
AfterChunkEager(drained) == "returned"

\* where control is once get_streamed_text has consumed chunk
AfterChunk(drained) == IF drained.returned THEN "returned" ELSE "stream"

\* stream.next().await yields a chunk: the first k bytes of what is left of the body
RecvChunk ==
  /\ pc = "stream"
  /\ \E k \in 1..Len(body) :
       LET chunk == SubSeq(body, 1, k)
           text == from_utf8_lossy(chunk)
           drained == DrainLines(buffer \o text, full_text)
       IN /\ body' = SubSeq(body, k + 1, Len(body))
          /\ received' = received \o chunk
          /\ decoded' = decoded \o text
          /\ buffer' = drained.buffer
          /\ full_text' = drained.full_text
          /\ pc' = AfterChunk(drained)
          /\ ret' = IF drained.returned THEN "done" ELSE ret
          /\ outstanding' = IF drained.returned THEN outstanding - 1 ELSE outstanding
  /\ UNCHANGED <<call, requests, failed, file_writes>>
  /\ UNCHANGED <<graphVars, loopVars, testVars>>

\* the end of a stream without completion flag is taken as "no answer"
StreamEndDiscarding ==
  /\ pc = "stream"
  /\ body = <<>>
  /\ pc' = "returned"
  /\ ret' = "eof"
  /\ full_text' = <<>>
  /\ outstanding' = outstanding - 1
  /\ UNCHANGED <<call, requests, failed, file_writes, body, buffer, received, decoded>>
  /\ UNCHANGED <<graphVars, loopVars, testVars>>

\* at the end of the stream what is left in the buffer is decoded as a last line
StreamEndFlushing ==
  /\ pc = "stream"
  /\ body = <<>>
  /\ pc' = "returned"
  /\ ret' = "eof"
  /\ full_text' = DrainLines(buffer \o <<NL>>, full_text).full_text
  /\ buffer' = <<>>
  /\ outstanding' = outstanding - 1
  /\ UNCHANGED <<call, requests, failed, file_writes, body, received, decoded>>
  /\ UNCHANGED <<graphVars, loopVars, testVars>>

\* stream.next().await yields None: Ok(full_text), whatever is left in the buffer
StreamEnd ==
  /\ pc = "stream"
  /\ body = <<>>
  /\ pc' = "returned"
  /\ ret' = "eof"
  /\ outstanding' = outstanding - 1
  /\ UNCHANGED <<call, requests, failed, file_writes, body, buffer, full_text, received, decoded>>
  /\ UNCHANGED <<graphVars, loopVars, testVars>>

\* stream.next().await yields an error: chunk? returns it
ChunkError ==
  /\ pc = "stream"
  /\ pc' = OnTransportError
  /\ failed' = TRUE
  /\ outstanding' = outstanding - 1
  /\ UNCHANGED <<call, requests, file_writes>>
  /\ UNCHANGED <<graphVars, loopVars, streamVars, testVars>>

\* build_documentation has its summary text and calls extract_insights
BeginExtract ==
  /\ pc = "returned"
  /\ call = "query"
  /\ pc' = "send"
  /\ call' = "extract"
  /\ StreamDropped
  /\ UNCHANGED <<requests, outstanding, failed, file_writes>>
  /\ UNCHANGED <<graphVars, loopVars, testVars>>

\* where build_documentation goes on when extract_insights has returned Ok
AfterExtract == IF in_loop THEN "compare" ELSE "enter_loop"

\* the graph after the match of extract_insights on raw_text
MergedGraph(g, raw_text) == MergeInsights(g, ExtractedInsights(raw_text))

\* extract_insights has its raw text: extract the array, parse it, merge the records
Merge ==
  /\ pc = "returned"
  /\ call = "extract"
  /\ LET block == extract_json_block(full_text)
         insights == ExtractedInsights(full_text)
     IN IF block.tag = "Panic"
          THEN /\ pc' = "panic"
               /\ UNCHANGED <<concepts, merged_concepts, last_def, last_nonempty_def>>
          ELSE /\ pc' = AfterExtract
               /\ concepts' = MergedGraph(concepts, full_text)
               /\ merged_concepts' = merged_concepts \cup ConceptsOf(insights)
               /\ last_def' =
                    [c \in ConceptNames |-> LastDefinition(insights, c, last_def[c], FALSE)]
               /\ last_nonempty_def' =
                    [c \in ConceptNames |->
                       LastDefinition(insights, c, last_nonempty_def[c], TRUE)]
  /\ last_merge' = [valid |-> TRUE, raw |-> full_text, before |-> concepts]
  /\ StreamDropped
  /\ UNCHANGED <<call, requests, outstanding, failed, file_writes>>
  /\ UNCHANGED <<loopVars, testVars>>

\* let mut previous_concepts = knowledge.concepts.clone(); let mut depth = 1;
EnterLoop ==
  /\ pc = "enter_loop"
  /\ previous_concepts' = concepts
  /\ depth' = InitialDepth
  /\ in_loop' = TRUE
  /\ pc' = "loop"
  /\ UNCHANGED <<call, requests, outstanding, failed, file_writes>>
  /\ UNCHANGED <<graphVars, streamVars, testVars>>

\* knowledge.concepts.get("General").map(|c| c.subtopics.clone()).unwrap_or_default()
general_subtopics(g) == IF "General" \in DOMAIN g THEN g["General"].subtopics ELSE {}

\* a loop head without break: it waits for a subtopic and a budget
LoopHeadWaiting ==
  /\ pc = "loop"
  /\ depth # 0
  /\ general_subtopics(concepts) # {}
  /\ pc' = "send"
  /\ call' = "query"
  /\ UNCHANGED <<requests, outstanding, failed, file_writes>>
  /\ UNCHANGED <<graphVars, loopVars, streamVars, testVars>>

\* the head of the loop: leave it, or go on to the sweep request
LoopHead ==
  /\ pc = "loop"
  /\ IF depth = 0 \/ general_subtopics(concepts) = {}
       THEN pc' = "done" /\ call' = call
       ELSE pc' = "send" /\ call' = "query"
  /\ UNCHANGED <<requests, outstanding, failed, file_writes>>
  /\ UNCHANGED <<graphVars, loopVars, streamVars, testVars>>

\* the end of a round that leaves the budget as it is
CompareKeepingBudget ==
  /\ pc = "compare"
  /\ IF previous_concepts = concepts
       THEN pc' = "done" /\ UNCHANGED <<previous_concepts, depth>>
       ELSE /\ pc' = "loop"
            /\ previous_concepts' = concepts
            /\ depth' = depth
  /\ UNCHANGED <<call, in_loop, requests, outstanding, failed, file_writes>>
  /\ UNCHANGED <<graphVars, streamVars, testVars>>

\* the end of a round: stop when the graph did not change
Compare ==
  /\ pc = "compare"
  /\ IF previous_concepts = concepts
       THEN pc' = "done" /\ UNCHANGED <<previous_concepts, depth>>
       ELSE /\ pc' = "loop"
            /\ previous_concepts' = concepts
            /\ depth' = depth - 1
  /\ UNCHANGED <<call, in_loop, requests, outstanding, failed, file_writes>>
  /\ UNCHANGED <<graphVars, streamVars, testVars>>

\* build_documentation returned Ok: main writes the file and returns
WriteFile ==
  /\ pc = "done"
  /\ pc' = "written"
  /\ file_writes' = file_writes + 1
  /\ UNCHANGED <<call, requests, outstanding, failed>>
  /\ UNCHANGED <<graphVars, loopVars, streamVars, testVars>>

Next ==
  \/ Send
  \/ SendFails
  \/ RecvChunk
  \/ StreamEnd
  \/ ChunkError
  \/ BeginExtract
  \/ Merge
  \/ EnterLoop
  \/ LoopHead
  \/ Compare
  \/ WriteFile

Spec == Init /\ [][Next]_vars

-----------------------------------------------------------------------------
(* The whole run under fairness, on a few responses of every kind *)

\* responses with and without completion flag and with a malformed line; arrays
\* that add a concept and a subtopic, that add another subtopic, that add none,
\* that come in two lines, that change nothing; a text without array; a text
\* with reversed brackets
LiveBodies(c) ==
  IF c = "query"
    THEN {Line(<<X>>, DONE), <<X, NL>> \o Line(<<X>>, MORE)}
    ELSE {Line(ArrayText(<<OtherObject>>), DONE),
          Line(ArrayText(<<SubtopicObject>>), DONE),
          Line(ArrayText(<<GoodObject>>), DONE),
          Line(<<LB>>, MORE) \o Line(<<EmptyDefObject, RB>>, DONE),
          Line(<<LB, RB>>, MORE),
          Line(<<X>>, DONE),
          Line(<<RB, X, LB>>, DONE)}

SendLive == SendOf(LiveBodies(call))

NextLive ==
  \/ SendLive
  \/ SendFails
  \/ RecvChunk
  \/ StreamEnd
  \/ ChunkError
  \/ BeginExtract
  \/ Merge
  \/ EnterLoop
  \/ LoopHead
  \/ Compare
  \/ WriteFile

\* the endpoint answers and the program runs: a request that is sent fails or
\* gets a response, a response that is read yields a chunk, ends or fails, and
\* the program takes its next step
Fairness ==
  /\ WF_vars(SendFails \/ SendLive)
  /\ WF_vars(ChunkError \/ StreamEnd \/ RecvChunk)
  /\ WF_vars(BeginExtract \/ Merge \/ EnterLoop \/ LoopHead \/ Compare \/ WriteFile)

SpecLive == Init /\ [][NextLive]_vars /\ Fairness

-----------------------------------------------------------------------------
(* The decoder alone: one response, every body up to a bound, every chunking *)

\* the longest body of arbitrary bytes
MaxBodyLen == 5

\* the largest number of lines of a body built from lines
MaxLines == 2

DecodeBytes == {NL, OPEN, DONE, MORE, X, LEAD, CONT}

LineContents ==
  {<<OPEN>> \o t \o <<fin>> :
     t \in {<<>>, <<X>>, <<LEAD, CONT>>}, fin \in {DONE, MORE}}
    \cup {<<SP, OPEN, X, SP, X, DONE, SP>>, <<SP>>, <<>>, <<X>>, <<OPEN, X>>}

DecodeLines == {c \o <<NL>> : c \in LineContents} \cup (LineContents \ {<<>>})

RECURSIVE Concat(_)
Concat(seqs) == IF seqs = <<>> THEN <<>> ELSE Head(seqs) \o Concat(Tail(seqs))

DecodeBodies ==
  SeqsUpTo(DecodeBytes, MaxBodyLen)
    \cup {Concat(ls) : ls \in SeqsUpTo(DecodeLines, MaxLines)}

\* a request of build_documentation has been sent and its response b arrives
InitDecode ==
  /\ pc = "stream"
  /\ call = "query"
  /\ in_loop = FALSE
  /\ depth = InitialDepth
  /\ concepts = SeededGraph
  /\ previous_concepts = <<>>
  /\ body \in DecodeBodies
  /\ buffer = <<>>
  /\ full_text = <<>>
  /\ received = <<>>
  /\ decoded = <<>>
  /\ ret = "none"
  /\ requests = 1
  /\ outstanding = 1
  /\ failed = FALSE
  /\ file_writes = 0
  /\ last_merge = NoMerge
  /\ merged_concepts = {}
  /\ last_def = [c \in ConceptNames |-> None]
  /\ last_nonempty_def = [c \in ConceptNames |-> None]
  /\ insight = NoInsight
  /\ hist = <<>>

NextDecode ==
  \/ RecvChunk
  \/ StreamEnd
  \/ ChunkError

SpecDecode == InitDecode /\ [][NextDecode]_vars

-----------------------------------------------------------------------------
(* The extractor alone: every decoded text up to a bound *)

\* the longest decoded text
MaxRawLen == 5

ExtractAlphabet == {LB, RB, COMMA, X, GoodObject, SubtopicObject, BadObject}

RawTexts == SeqsUpTo(ExtractAlphabet, MaxRawLen)

\* the history after the first extraction has merged the array of text prior
HistoryAfter(prior) ==
  /\ concepts = MergedGraph(SeededGraph, prior)
  /\ merged_concepts = ConceptsOf(ExtractedInsights(prior))
  /\ last_def =
       [c \in ConceptNames |-> LastDefinition(ExtractedInsights(prior), c, None, FALSE)]
  /\ last_nonempty_def =
       [c \in ConceptNames |->
          LastDefinition(ExtractedInsights(prior), c, None, TRUE)]

\* extract_insights has decoded its response, one of texts: in the first
\* extraction, or in the extraction of the sweep round that follows a first
\* extraction with a subtopic
ExtractStart(texts) ==
  /\ pc = "returned"
  /\ call = "extract"
  /\ \/ /\ in_loop = FALSE
        /\ previous_concepts = <<>>
        /\ requests = 2
        /\ last_merge = NoMerge
        /\ HistoryAfter(<<>>)
     \/ /\ in_loop = TRUE
        /\ previous_concepts = MergedGraph(SeededGraph, ArrayText(<<OtherObject>>))
        /\ requests = 4
        /\ last_merge =
             [valid |-> TRUE, raw |-> ArrayText(<<OtherObject>>), before |-> SeededGraph]
        /\ HistoryAfter(ArrayText(<<OtherObject>>))
  /\ depth = InitialDepth
  /\ body = <<>>
  /\ buffer = <<>>
  /\ full_text \in texts
  /\ received = Line(full_text, DONE)
  /\ decoded = Line(full_text, DONE)
  /\ ret = "done"
  /\ outstanding = 0
  /\ failed = FALSE
  /\ file_writes = 0
  /\ insight = NoInsight
  /\ hist = <<>>

InitExtract == ExtractStart(RawTexts)

NextExtract ==
  \/ Merge
  \/ EnterLoop
  \/ LoopHead
  \/ Compare

SpecExtract == InitExtract /\ [][NextExtract]_vars

-----------------------------------------------------------------------------
(* The extractor on texts with brackets inside string values *)

BlockAlphabet == {LB, RB, X, GoodObject, QOPEN, QCLOSE}

BlockTexts == SeqsUpTo(BlockAlphabet, MaxRawLen)

InitBlock == ExtractStart(BlockTexts)

SpecBlock == InitBlock /\ [][NextExtract]_vars

-----------------------------------------------------------------------------
(* The merge of one record alone: every graph of a family, every record *)

ConceptValues ==
  [definition : {None, Some(""), Some("D1")},
   examples : SUBSET {"E1"},
   related_concepts : SUBSET {"A", "B"},
   subtopics : {{}}]

RootValues ==
  [definition : {None}, examples : {{}}, related_concepts : {{}},
   subtopics : SUBSET {"S1"}]

\* the graphs with the root and any of the concepts A and B
Graphs ==
  UNION {[{"General"} \cup K -> ConceptValues \cup RootValues] : K \in SUBSET {"A", "B"}}

IsMergeGraph(g) ==
  /\ g["General"] \in RootValues
  /\ \A c \in DOMAIN g \ {"General"} : g[c] \in ConceptValues

InitMerge ==
  /\ pc = "merge_test"
  /\ call = "extract"
  /\ in_loop = FALSE
  /\ depth = InitialDepth
  /\ concepts \in {g \in Graphs : IsMergeGraph(g)}
  /\ previous_concepts = <<>>
  /\ body = <<>>
  /\ buffer = <<>>
  /\ full_text = <<>>
  /\ received = <<>>
  /\ decoded = <<>>
  /\ ret = "none"
  /\ requests = 2
  /\ outstanding = 0
  /\ failed = FALSE
  /\ file_writes = 0
  /\ last_merge = NoMerge
  /\ merged_concepts = DOMAIN concepts \ {"General"}
  /\ last_def =
       [c \in ConceptNames |-> IF c \in DOMAIN concepts THEN concepts[c].definition ELSE None]
  /\ last_nonempty_def =
       [c \in ConceptNames |->
          IF c \in DOMAIN concepts /\ concepts[c].definition # Some("")
            THEN concepts[c].definition ELSE None]
  /\ insight \in Insights
  /\ hist = <<concepts>>

\* one more pass of the loop body of extract_insights for the record insight
ApplyInsight ==
  /\ pc = "merge_test"
  /\ Len(hist) < 3
  /\ concepts' = MergeInsight(concepts, insight)
  /\ hist' = Append(hist, concepts')
  /\ merged_concepts' = merged_concepts \cup ConceptsOf(<<insight>>)
  /\ last_def' =
       [c \in ConceptNames |-> LastDefinition(<<insight>>, c, last_def[c], FALSE)]
  /\ last_nonempty_def' =
       [c \in ConceptNames |->
          LastDefinition(<<insight>>, c, last_nonempty_def[c], TRUE)]
  /\ UNCHANGED <<pc, call, requests, outstanding, failed, file_writes, insight, last_merge>>
  /\ UNCHANGED <<loopVars, streamVars>>

NextMerge == ApplyInsight

SpecMerge == InitMerge /\ [][NextMerge]_vars

-----------------------------------------------------------------------------
(* Reference definitions for the properties *)

\* the positions of the line terminators of s
NLPositions(s) == {i \in 1..Len(s) : s[i] = NL}

LineCount(s) == Cardinality(NLPositions(s))

\* the position of the n-th line terminator of s
NthNL(s, n) ==
  CHOOSE i \in NLPositions(s) : Cardinality({j \in NLPositions(s) : j <= i}) = n

\* the n-th terminated line of s, without its terminator
LineAt(s, n) ==
  SubSeq(s, IF n = 1 THEN 1 ELSE NthNL(s, n - 1) + 1, NthNL(s, n) - 1)

RecordAt(s, n) == ParseResponseChunk(trim(LineAt(s, n)))

\* the text fragments of the well-formed lines among the first n lines of s
RECURSIVE TextOfLines(_, _)
TextOfLines(s, n) ==
  IF n = 0 THEN <<>>
  ELSE TextOfLines(s, n - 1) \o (IF RecordAt(s, n).ok THEN RecordAt(s, n).response ELSE <<>>)

DoneLines(s) == {n \in 1..LineCount(s) : RecordAt(s, n).ok /\ RecordAt(s, n).done}

FirstDoneLine(s) == CHOOSE n \in DoneLines(s) : \A m \in DoneLines(s) : n <= m

TextThroughFirstDone(s) == TextOfLines(s, FirstDoneLine(s))

\* what get_streamed_text returns when the whole body arrives as one chunk
OneChunkText(bytes) == DrainLines(from_utf8_lossy(bytes), <<>>).full_text

-----------------------------------------------------------------------------
(* Properties *)

\* C1: merging the same record twice in a row gives the graph that merging it
\* once gives, for every graph of the family and every record.
C1_MergeIdempotent == Len(hist) = 3 => hist[3] = hist[2]

\* a record with every field present has been merged twice into a graph it changes
C1_Witness ==
  /\ Len(hist) = 3
  /\ hist[2] # hist[1]
  /\ insight = StructuredInsight(Some("B"), Some("A"), Some("D1"), Some("E1"), Some("S1"))
  /\ "A" \in DOMAIN hist[1]
  /\ hist[1]["A"].definition = Some("")

\* C2: whatever the cuts between the chunks, get_streamed_text returns the text it
\* returns when the body arrives as one chunk.
C2_BoundaryIndependence ==
  pc = "returned" => full_text = OneChunkText(received \o body)

\* C3: once a line with the completion flag set is parsed, get_streamed_text has
\* returned the fragments of the well-formed lines up to and including that line
\* and nothing of what follows it, and reads no further chunk.
C3_EarlyTermination ==
  /\ [](ret = "done" =>
          /\ pc = "returned"
          /\ DoneLines(decoded) # {}
          /\ full_text = TextThroughFirstDone(decoded))
  /\ [][ret = "done" => UNCHANGED <<received, full_text, body>>]_vars

\* the decoder has returned on the completion flag while what it ignores, in its
\* buffer and unread, holds a well-formed line with text
C3_Witness ==
  /\ ret = "done"
  /\ full_text # <<>>
  /\ body # <<>>
  /\ buffer # <<>>
  /\ OneChunkText(buffer \o body) # <<>>


\* the graph that merging records into before must give, field by field
ExpectedGraph(before, records) ==
  LET idx == 1..Len(records)
      subs == {records[n].subtopic[1] :
                 n \in {m \in idx : records[m].subtopic # None /\ records[m].subtopic # Some("")}}
      keys == DOMAIN before \cup ConceptsOf(records)
                \cup (IF subs = {} THEN {} ELSE {"General"})
      old(c) == IF c \in DOMAIN before THEN before[c] ELSE DefaultConcept
      of(c) == {n \in idx : records[n].concept = Some(c)}
  IN [c \in keys |->
        [definition |-> LastDefinition(records, c, old(c).definition, FALSE),
         examples |-> old(c).examples
            \cup {records[n].example[1] : n \in {m \in of(c) : records[m].example # None}},
         related_concepts |-> old(c).related_concepts
            \cup {records[n].topic[1] : n \in {m \in of(c) : records[m].topic # None}},
         subtopics |-> old(c).subtopics \cup (IF c = "General" THEN subs ELSE {})]]

\* s is the text [ object , object ... ] of one object or more
IsObjectArray(s) ==
  /\ Len(s) >= 3
  /\ Len(s) % 2 = 1
  /\ s[1] = LB
  /\ s[Len(s)] = RB
  /\ \A i \in 2..(Len(s) - 1) : IF i % 2 = 0 THEN s[i].k = "obj" ELSE s[i] = COMMA

ObjectsOf(s) == [i \in 1..((Len(s) - 1) \div 2) |-> s[2 * i]]

\* the object has a field whose value is no string
HasBadField(o) == JNum \in {o.topic, o.concept, o.definition, o.example, o.subtopic}

\* the span is the text of an array of insight records
IsRecordArray(span) ==
  LET t == SelectSeq(Lex(span), NotSpace)
  IN \/ t = <<LB, RB>>
     \/ IsObjectArray(t) /\ \A i \in 1..Len(ObjectsOf(t)) : ~HasBadField(ObjectsOf(t)[i])

\* the decoded extraction response holds no '[' or no ']', or its span from the
\* first '[' to the last ']' is no array of insight records
MalformedPayload(raw) ==
  LET lbs == {i \in 1..Len(raw) : raw[i] = LB}
      rbs == {i \in 1..Len(raw) : raw[i] = RB}
      first == CHOOSE i \in lbs : \A j \in lbs : i <= j
      last == CHOOSE i \in rbs : \A j \in rbs : j <= i
  IN \/ lbs = {}
     \/ rbs = {}
     \/ first <= last /\ ~IsRecordArray(SubSeq(raw, first, last))

\* C4: when the decoded extraction response holds no '[' or no ']', or its span
\* from the first '[' to the last ']' is no array of insight records, the merge
\* step leaves the graph as it was, no error is returned and the controller goes
\* on with its next step.
C4_MalformedPayloadNoOp ==
  last_merge.valid /\ MalformedPayload(last_merge.raw) =>
    /\ concepts = last_merge.before
    /\ ~failed
    /\ pc \in {"enter_loop", "compare", "loop", "done", "send"}

\* in the sweep round a response with brackets and an object but no array has been
\* through the merge step, and the controller has gone on to the end of the run
C4_Witness ==
  /\ last_merge.valid
  /\ MalformedPayload(last_merge.raw)
  /\ \E i, j, n \in 1..Len(last_merge.raw) :
       i < n /\ n < j /\ last_merge.raw[i] = LB /\ last_merge.raw[j] = RB
         /\ last_merge.raw[n] = GoodObject
  /\ in_loop
  /\ last_merge.before # SeededGraph
  /\ pc = "done"

\* the graph after the last merge step, the seeded graph when there was none
GraphOfLastMerge ==
  IF last_merge.valid
    THEN ExpectedGraph(last_merge.before, ExtractedInsights(last_merge.raw))
    ELSE SeededGraph

\* C5: once a request has failed in transport, build_documentation has returned
\* the error, no request is issued any more, and the graph is and stays the graph
\* of the last merge before the failure: the text read from the failed stream is
\* not merged.
C5_TransportFailureFatal ==
  /\ [](failed => pc = "error" /\ outstanding = 0 /\ concepts = GraphOfLastMerge)
  /\ [][failed => requests' = requests /\ concepts' = concepts]_vars
  /\ [][failed' /\ ~failed => concepts' = concepts /\ pc \in {"send", "stream"}]_vars

\* the stream of the extraction request of the sweep round has failed after text
\* whose merge would have changed the graph had been read
C5_Witness ==
  /\ failed
  /\ requests = 4
  /\ call = "extract"
  /\ concepts # SeededGraph
  /\ MergedGraph(concepts, full_text) # concepts

\* the array has a record with a field that is no string and a record without
MixedBatch(raw) ==
  /\ IsObjectArray(raw)
  /\ \E i \in 1..Len(ObjectsOf(raw)) : HasBadField(ObjectsOf(raw)[i])
  /\ \E i \in 1..Len(ObjectsOf(raw)) : ~HasBadField(ObjectsOf(raw)[i])

\* the records of the array, a field that is no string taken as absent
RecordsOf(raw) == [i \in 1..Len(ObjectsOf(raw)) |-> ToInsight(ObjectsOf(raw)[i])]

\* C6 as stated: from an array with malformed and well-formed records, the
\* well-formed records and the well-formed fields of the others are merged.
C6_RecordsIndependent ==
  last_merge.valid /\ MixedBatch(last_merge.raw) =>
    concepts = ExpectedGraph(last_merge.before, RecordsOf(last_merge.raw))

\* C6 amended: the records of an array are merged when every record of it has
\* only string or absent fields, each with its absent fields skipped; when a
\* record has a field that is no string, no record of the array is merged.
C6_AllOrNothing ==
  last_merge.valid /\ IsObjectArray(last_merge.raw) =>
    concepts =
      IF \E i \in 1..Len(ObjectsOf(last_merge.raw)) : HasBadField(ObjectsOf(last_merge.raw)[i])
        THEN last_merge.before
        ELSE ExpectedGraph(last_merge.before, RecordsOf(last_merge.raw))

\* an array of a malformed record and a well-formed one has been through the
\* merge step and the graph is as before
C6_Witness ==
  /\ last_merge.valid
  /\ last_merge.raw = <<LB, BadObject, COMMA, GoodObject, RB>>
  /\ concepts = last_merge.before
  /\ pc \in {"enter_loop", "compare"}


\* nothing of graph g is missing from graph h
GraphLeq(g, h) ==
  \A c \in DOMAIN g :
    /\ c \in DOMAIN h
    /\ g[c].examples \subseteq h[c].examples
    /\ g[c].related_concepts \subseteq h[c].related_concepts
    /\ g[c].subtopics \subseteq h[c].subtopics
    /\ g[c].definition # None => h[c].definition # None

\* C7: no step of the run removes a key of the graph, an element of a concept's
\* examples, related_concepts or subtopics, or resets a definition to absent.
C7_GraphNeverShrinks == [][GraphLeq(concepts, concepts')]_vars

\* the merge of the sweep round has changed a graph that the first merge had
\* already filled: a concept with a definition and an example was merged again
C7_Witness ==
  /\ in_loop
  /\ pc = "compare"
  /\ last_merge.valid
  /\ concepts # last_merge.before
  /\ "A" \in DOMAIN last_merge.before
  /\ last_merge.before["A"].definition = Some("D1")
  /\ last_merge.before["A"].examples = {"E1"}
  /\ Some("A") \in {ExtractedInsights(last_merge.raw)[n].concept :
                      n \in 1..Len(ExtractedInsights(last_merge.raw))}

\* the last merge step merged exactly one record
SingleRecordMerge == last_merge.valid /\ Len(ExtractedInsights(last_merge.raw)) = 1

\* the record r with concept C and topic T, merged into before, has added T to
\* the related concepts of C, has created no entry for T and has not added C to
\* the related concepts of T (for every T, or only for the T other than C)
ForwardEdgeOnly(r, before, after, everyT) ==
  r.concept # None /\ r.topic # None =>
    LET C == r.concept[1]
        T == r.topic[1]
    IN /\ C \in DOMAIN after
       /\ T \in after[C].related_concepts
       /\ everyT \/ T # C =>
            /\ T \notin DOMAIN before => T \notin DOMAIN after
            /\ T \in DOMAIN before =>
                 (C \in after[T].related_concepts => C \in before[T].related_concepts)

\* the keys of the graph are the root and the concept fields of the merged records
KeysAreMergedConcepts == DOMAIN concepts = {"General"} \cup merged_concepts

\* C8 as stated: a record with concept C and topic T adds T to the related
\* concepts of C, creates no entry for T and adds no edge from T to C, whatever
\* T is; the keys are the root and the merged concept fields.
C8_ForwardReference ==
  /\ KeysAreMergedConcepts
  /\ SingleRecordMerge =>
       ForwardEdgeOnly(ExtractedInsights(last_merge.raw)[1], last_merge.before, concepts, TRUE)

\* C8 amended: the same, the entry of T and the edge from T to C being untouched
\* when T is another name than C.
C8_ForwardReferenceDistinct ==
  /\ KeysAreMergedConcepts
  /\ SingleRecordMerge =>
       ForwardEdgeOnly(ExtractedInsights(last_merge.raw)[1], last_merge.before, concepts, FALSE)

\* a record with concept A and topic B has been merged: B is a related concept of
\* A and no key of the graph
C8_Witness ==
  /\ SingleRecordMerge
  /\ ExtractedInsights(last_merge.raw)[1].concept = Some("A")
  /\ ExtractedInsights(last_merge.raw)[1].topic = Some("B")
  /\ "B" \in concepts["A"].related_concepts
  /\ "B" \notin DOMAIN concepts
  /\ pc = "done"

\* the definition of concept c in graph g, absent when c is no key
DefinitionOf(g, c) == IF c \in DOMAIN g THEN g[c].definition ELSE None

\* C9 as stated: the definition of a concept is the definition field of the last
\* merged record for it whose definition is present and not empty.
C9_LastNonEmptyDefinitionWins ==
  \A c \in ConceptNames : DefinitionOf(concepts, c) = last_nonempty_def[c]

\* C9 amended: the definition of a concept is the definition field of the last
\* merged record for it whose definition is present, the empty string included.
C9_LastPresentDefinitionWins ==
  \A c \in ConceptNames : DefinitionOf(concepts, c) = last_def[c]

\* a record with an empty definition was merged after one with the definition D1,
\* and the definition is the empty string
C9_Witness ==
  /\ last_nonempty_def["A"] = Some("D1")
  /\ last_def["A"] = Some("")
  /\ concepts["A"].definition = Some("")
  /\ in_loop
  /\ "A" \in DOMAIN last_merge.before
  /\ last_merge.before["A"].definition = Some("D1")

\* C10: at most one request is outstanding, it is outstanding exactly while its
\* response is read, a request is sent only when none is outstanding, and the
\* graph changes only when none is outstanding.
C10_StrictlySequential ==
  /\ [](outstanding \in {0, 1} /\ (outstanding = 1 <=> pc = "stream"))
  /\ [][requests' # requests => outstanding = 0]_vars
  /\ [][concepts' # concepts => outstanding = 0 /\ outstanding' = 0]_vars

\* the fourth request of a run is outstanding, two merges behind it
C10_Witness ==
  /\ outstanding = 1
  /\ requests = 4
  /\ pc = "stream"
  /\ concepts # SeededGraph
  /\ body # <<>>
  /\ received # <<>>

\* the subtopics of the root
RootSubtopics == concepts["General"].subtopics

\* C11: a sweep request is sent only inside the first round and only when the
\* root has a subtopic; the loop is left only at its head on an empty subtopic
\* set or a used-up budget, at its end on a graph equal to the snapshot, or by a
\* transport error; a run sends at most 4 requests, and a run that has returned
\* has sent 2 when the root has no subtopic and 4 otherwise.
C11_BoundedSweep ==
  /\ [](requests <= 4)
  /\ [](pc \in {"done", "written"} =>
          /\ requests \in {2, 4}
          /\ requests = 2 <=> RootSubtopics = {})
  /\ [][in_loop /\ requests' # requests =>
          /\ requests \in {2, 3}
          /\ depth >= 1
          /\ previous_concepts = concepts
          /\ RootSubtopics # {}]_vars
  /\ [][in_loop /\ pc # "done" /\ pc' = "done" =>
          \/ pc = "loop" /\ RootSubtopics = {}
          \/ pc = "loop" /\ depth = 0
          \/ pc = "compare" /\ previous_concepts = concepts]_vars
  /\ [][in_loop /\ pc # "error" /\ pc' = "error" => failed' /\ pc \in {"send", "stream"}]_vars

\* the one sweep round has changed the graph and used up the budget: the loop is
\* left with subtopics still on the root
C11_Witness ==
  /\ pc = "done"
  /\ depth = 0
  /\ requests = 4
  /\ RootSubtopics # {}
  /\ previous_concepts = concepts

\* the terminated line n of s is not empty and no well-formed record
MalformedLine(s, n) == trim(LineAt(s, n)) # <<>> /\ ~RecordAt(s, n).ok

\* the lines of s the decoder reads: those up to the first line with the
\* completion flag set, every terminated line when there is none
LinesRead(s) == IF DoneLines(s) # {} THEN FirstDoneLine(s) ELSE LineCount(s)

\* C12: when a line that the decoder has read is not empty and no well-formed
\* record, the decoder is still reading or has returned success, and its text is
\* the fragments, in order, of the well-formed lines read, those after the
\* malformed line included.
C12_MalformedLineDropped ==
  (~failed /\ \E n \in 1..LinesRead(decoded) : MalformedLine(decoded, n)) =>
    /\ pc \in {"stream", "returned"}
    /\ full_text = TextOfLines(decoded, LinesRead(decoded))
    /\ pc = "returned" <=> ret \in {"done", "eof"}
    /\ pc = "stream" => DoneLines(decoded) = {}

\* a malformed line came first and a well-formed line with text after it: the
\* call has returned the text of the second line
C12_Witness ==
  /\ pc = "returned"
  /\ LineCount(decoded) = 2
  /\ MalformedLine(decoded, 1)
  /\ RecordAt(decoded, 2).ok
  /\ RecordAt(decoded, 2).response # <<>>
  /\ full_text = RecordAt(decoded, 2).response

\* C13: when the stream ends and no line had the completion flag set,
\* get_streamed_text returns success with the fragments, in order, of all
\* well-formed lines, the empty text when there are none.
C13_EndWithoutDone ==
  ret = "eof" =>
    /\ pc = "returned"
    /\ ~failed
    /\ body = <<>>
    /\ DoneLines(decoded) = {}
    /\ full_text = TextOfLines(decoded, LineCount(decoded))

\* the stream has ended after two well-formed lines with text, none of them
\* with the completion flag
C13_Witness ==
  /\ ret = "eof"
  /\ LineCount(decoded) = 2
  /\ RecordAt(decoded, 1).ok /\ RecordAt(decoded, 1).response # <<>>
  /\ RecordAt(decoded, 2).ok /\ RecordAt(decoded, 2).response # <<>>
  /\ full_text = RecordAt(decoded, 1).response \o RecordAt(decoded, 2).response

\* the position of the last line terminator of s, 0 when there is none
LastNL(s) == rfind(s, NL)

UpToLastNL(s) == SubSeq(s, 1, LastNL(s))

AfterLastNL(s) == SubSeq(s, LastNL(s) + 1, Len(s))

\* C19: the text get_streamed_text returns is made of the terminated lines only:
\* it is the text of the decoded characters up to the last line terminator; what
\* follows that terminator stays in the buffer, and when it is the only record
\* with the completion flag set the call returns through the end of the stream.
C19_OnlyTerminatedLines ==
  pc = "returned" =>
    /\ full_text = TextOfLines(UpToLastNL(decoded), LinesRead(UpToLastNL(decoded)))
    /\ ret = "eof" => buffer = AfterLastNL(decoded)
    /\ DoneLines(decoded) = {} => ret = "eof"

\* the stream has ended on a well-formed record with text and the completion flag
\* set but no line terminator, after a terminated line with text
C19_Witness ==
  /\ ret = "eof"
  /\ ParseResponseChunk(trim(AfterLastNL(decoded))).ok
  /\ ParseResponseChunk(trim(AfterLastNL(decoded))).done
  /\ ParseResponseChunk(trim(AfterLastNL(decoded))).response # <<>>
  /\ LineCount(decoded) = 1
  /\ full_text = RecordAt(decoded, 1).response
  /\ full_text # <<>>

\* the positions of s that hold b
PositionsOf(s, b) == {i \in 1..Len(s) : s[i] = b}

FirstOf(S) == CHOOSE i \in S : \A j \in S : i <= j

LastOf(S) == CHOOSE i \in S : \A j \in S : j <= i

\* the characters '[' and ']' stand in raw, the first '[' not after the last ']'
HasSpan(raw) ==
  /\ PositionsOf(raw, LB) # {}
  /\ PositionsOf(raw, RB) # {}
  /\ FirstOf(PositionsOf(raw, LB)) <= LastOf(PositionsOf(raw, RB))

\* raw is one array of insight records from position i to position j, with text
\* that holds no bracket before and after it
ArrayInJunk(raw, i, j) ==
  /\ i < j
  /\ IsRecordArray(SubSeq(raw, i, j))
  /\ \A n \in 1..Len(raw) : raw[n] \in {LB, RB} => i <= n /\ n <= j
  /\ i > 1 \/ j < Len(raw)

\* the records of the array that the text span is
RecordsOfSpan(span) == RecordsOf(SelectSeq(Lex(span), NotSpace))

\* the JSON tokens of raw hold two arrays of insight records, one after the other
TwoArrays(raw) ==
  LET t == Lex(raw)
  IN \E i, j, k, l \in 1..Len(t) :
       /\ i < j /\ j < k /\ k < l
       /\ IsRecordArray(SubSeq(t, i, j))
       /\ IsRecordArray(SubSeq(t, k, l))

\* C14: for a decoded text with a '[' and, at or after the first one, a ']',
\* extract_json_block gives the characters from the first '[' to the last ']',
\* whatever stands between them; one array of records with bracket-free text
\* around it is merged as that array; two arrays one after the other give a span
\* that does not parse, and the graph stays as it was.
C14_FirstToLastBracket ==
  last_merge.valid =>
    LET raw == last_merge.raw IN
    /\ HasSpan(raw) =>
         /\ extract_json_block(raw) =
              [tag |-> "Some",
               v |-> SubSeq(raw, FirstOf(PositionsOf(raw, LB)), LastOf(PositionsOf(raw, RB)))]
         /\ pc # "panic"
    /\ \A i, j \in 1..Len(raw) :
         ArrayInJunk(raw, i, j) =>
           concepts = ExpectedGraph(last_merge.before, RecordsOfSpan(SubSeq(raw, i, j)))
    /\ TwoArrays(raw) => concepts = last_merge.before /\ ~failed

\* the array of one record with text before and after it has been merged: the
\* concept of the record has its definition, its example and its related concept
C14_Witness ==
  /\ last_merge.valid
  /\ last_merge.raw = <<X, LB, GoodObject, RB, X>>
  /\ "A" \notin DOMAIN last_merge.before
  /\ "A" \in DOMAIN concepts
  /\ concepts["A"] =
       [definition |-> Some("D1"), examples |-> {"E1"}, related_concepts |-> {"B"},
        subtopics |-> {}]

\* the subtopic fields of the records that are present and not empty
SubtopicsOf(insights) ==
  {insights[n].subtopic[1] :
     n \in {m \in 1..Len(insights) :
              insights[m].subtopic # None /\ insights[m].subtopic # Some("")}}

\* C15: the subtopics of the root never hold the empty string, every other
\* concept has no subtopics, and after a merge step every non-empty subtopic
\* field of the merged records, with or without concept field, is a subtopic of
\* the root.
C15_SubtopicsOnRoot ==
  /\ "" \notin RootSubtopics
  /\ \A c \in DOMAIN concepts \ {"General"} : concepts[c].subtopics = {}
  /\ last_merge.valid /\ pc # "panic" =>
       SubtopicsOf(ExtractedInsights(last_merge.raw)) \subseteq RootSubtopics

\* a record with a subtopic and no concept has been merged: the root has the
\* subtopic, which it had not before, and no entry was made
C15_Witness ==
  /\ last_merge.valid
  /\ Len(ExtractedInsights(last_merge.raw)) = 1
  /\ ExtractedInsights(last_merge.raw)[1].concept = None
  /\ ExtractedInsights(last_merge.raw)[1].subtopic = Some("S2")
  /\ "S2" \in RootSubtopics
  /\ "S2" \notin last_merge.before["General"].subtopics
  /\ DOMAIN concepts = DOMAIN last_merge.before

\* every ']' of raw stands before its first '['
ReversedBrackets(raw) ==
  /\ PositionsOf(raw, LB) # {}
  /\ PositionsOf(raw, RB) # {}
  /\ LastOf(PositionsOf(raw, RB)) < FirstOf(PositionsOf(raw, LB))

\* C16: when every ']' of the decoded extraction response stands before its
\* first '[', the merge step finds no array, returns success and leaves the
\* graph as it was, and the run goes on.
C16_ReversedBracketsNoArray ==
  last_merge.valid /\ ReversedBrackets(last_merge.raw) =>
    /\ pc # "panic"
    /\ ~failed
    /\ concepts = last_merge.before

\* C17: the merge of a record without concept field leaves the graph as it was
\* but for the subtopic of the record, when present and not empty, being added to
\* the subtopics of the root; no entry is created, whatever its topic,
\* definition and example.
C17_NoConceptOnlySubtopic ==
  Len(hist) >= 2 /\ insight.concept = None =>
    /\ DOMAIN hist[2] = DOMAIN hist[1]
    /\ hist[2] =
         [hist[1] EXCEPT !["General"].subtopics = @ \cup SubtopicsOf(<<insight>>)]
    /\ insight.subtopic \in {None, Some("")} => hist[2] = hist[1]

\* a record with topic, definition, example and subtopic but no concept has been
\* merged into a graph without an entry for its topic
C17_Witness ==
  /\ Len(hist) >= 2
  /\ insight = StructuredInsight(Some("B"), None, Some("D1"), Some("E1"), Some("S1"))
  /\ "B" \notin DOMAIN hist[1]
  /\ "A" \in DOMAIN hist[1]
  /\ hist[1]["General"].subtopics = {}
  /\ hist[2]["General"].subtopics = {"S1"}

C20_WriteOnlyAfterSuccess ==
  /\ [](file_writes <= 1)
  /\ [](failed => file_writes = 0)
  /\ [](file_writes = 1 <=> pc = "written")
  /\ [][file_writes' # file_writes =>
          pc = "done" /\ ~failed /\ outstanding = 0 /\ requests \in {2, 4}]_vars
  /\ [][(pc \in {"written", "error", "panic"}) => UNCHANGED vars]_vars

\* the sweep request has failed after the first extraction had merged records
\* into the graph: the run has ended and no file is written
C20_Witness ==
  /\ pc = "error"
  /\ failed
  /\ requests = 3
  /\ file_writes = 0
  /\ "A" \in DOMAIN concepts
  /\ concepts["A"].definition # None

====
